---- MODULE Spec2Model ----
(***************************************************************************)
(* Model of the carrier crate: the Completion type, the IntoCompletion     *)
(* conversion rules and the try! macro, executed by a small abstract       *)
(* machine over call frames.  The programs the machine runs are the        *)
(* functions of tests/basics.rs and tests/custom.rs, with their literal    *)
(* inputs drawn from small sets.                                           *)
(***************************************************************************)
EXTENDS Integers, Sequences, FiniteSets, TLC

(* ------------------------------ bounds --------------------------------- *)
\* number of try! applications in one function body of the sequence program
MaxTries == 2
\* number of valid (non-null) addresses a raw pointer can hold
MaxAddr == 2

(* ------------------------- program constants --------------------------- *)
NullAddr == 0
NUM == 42
StatusOk == 200

(* ------------------------------- values -------------------------------- *)
NoVal == [tag |-> "NoVal"]
Unit == [tag |-> "unit"]
MyError == [tag |-> "MyError"]
Error(s) == [tag |-> "Error", code |-> s]
I32(n) == [tag |-> "i32", n |-> n]
I64(n) == [tag |-> "i64", n |-> n]
Str(s) == [tag |-> "String", chars |-> s]
Ok(v) == [tag |-> "Ok", val |-> v]
Err(e) == [tag |-> "Err", val |-> e]
Some(v) == [tag |-> "Some", val |-> v]
None == [tag |-> "None"]
ConstPtr(a) == [tag |-> "ConstPtr", addr |-> a]
MutPtr(a) == [tag |-> "MutPtr", addr |-> a]
Response(s) == [tag |-> "Response", status |-> s]

\* pub enum Completion<V, F> { Value(V), Abrupt(F) }
Value(v) == [tag |-> "Value", val |-> v]
Abrupt(f) == [tag |-> "Abrupt", val |-> f]

\* target representations (the return type of the enclosing function)
ResultOf(U, F) == [rep |-> "Result", elem |-> U, F |-> F]
OptionOf(V) == [rep |-> "Option", elem |-> V, F |-> "-"]
OptionResultOf(U, F) == [rep |-> "Option", elem |-> "Result", F |-> F]
PtrTy == [rep |-> "Ptr", elem |-> "i64", F |-> "-"]

(* ------------------------- input value sets ---------------------------- *)
Ints == {0, 7, 21, 42, -5}
Statuses == {StatusOk, 404, 500, 0}
Addrs == 0..MaxAddr
\* failure values; a function's failure type F must satisfy E: Into<F>
ErrVals == {Unit, MyError, Error(404)}

\* static memory the non-null pointers point into; address 1 holds NUM
Mem == [a \in 1..MaxAddr |-> IF a = 1 THEN NUM ELSE 7 * a]

(* --------------------------- pure functions ---------------------------- *)
DigitChar(d) == <<"0", "1", "2", "3", "4", "5", "6", "7", "8", "9">>[d + 1]

RECURSIVE Digits(_)
Digits(n) == IF n < 10 THEN <<DigitChar(n)>>
             ELSE Digits(n \div 10) \o <<DigitChar(n % 10)>>

\* i32::to_string
to_string(x) == Str(IF x.n < 0 THEN <<"-">> \o Digits(-x.n) ELSE Digits(x.n))

\* format!("[{}]", val)
format(x) == Str(<<"[">> \o (IF x.tag = "String" THEN x.chars ELSE to_string(x).chars) \o <<"]">>)

\* E: Into<F>; the reflexive impl of std and `impl From<()> for MyError`
into(err, F) == IF err.tag = F THEN err
                ELSE IF err = Unit /\ F = "MyError" THEN MyError
                ELSE NoVal

is_null(p) == p.addr = NullAddr

\* Response::is_successful, Response::status
is_successful(r) == r.status = StatusOk
status(r) == r.status

(* ------------------------ the conversion rules ------------------------- *)
\* Every rule yields the completion it builds (c) together with the
\* arguments of the calls to into() it makes while building it (calls).
Made(c, calls) == [c |-> c, calls |-> calls]
IntoCall(err, F) == [arg |-> err, F |-> F]

\* faulty variant: the failure is converted twice
into_completion_Result_Result_twice(self, F) ==
    IF self.tag = "Ok"
    THEN Made(Value(self.val), <<>>)
    ELSE Made(Abrupt(Err(into(into(self.val, F), F))),
              <<IntoCall(self.val, F), IntoCall(into(self.val, F), F)>>)

\* faulty variant: the success value leaves the function instead of being unwrapped
into_completion_Result_Result_okAbrupt(self, F) ==
    IF self.tag = "Ok"
    THEN Made(Abrupt(Ok(self.val)), <<>>)
    ELSE Made(Abrupt(Err(into(self.val, F))), <<IntoCall(self.val, F)>>)

\* impl IntoCompletion<Result<U, F>> for Result<T, E>
into_completion_Result_Result(self, F) ==
    IF self.tag = "Ok"
    THEN Made(Value(self.val), <<>>)
    ELSE Made(Abrupt(Err(into(self.val, F))), <<IntoCall(self.val, F)>>)

\* faulty variant: the failure is dropped and the iterator just ends
into_completion_Result_OptionResult_none(self, F) ==
    IF self.tag = "Ok"
    THEN Made(Value(self.val), <<>>)
    ELSE Made(Abrupt(None), <<>>)

\* impl IntoCompletion<Option<Result<U, F>>> for Result<T, E>
into_completion_Result_OptionResult(self, F) ==
    IF self.tag = "Ok"
    THEN Made(Value(self.val), <<>>)
    ELSE Made(Abrupt(Some(Err(into(self.val, F)))), <<IntoCall(self.val, F)>>)

\* faulty variant: the absent case builds a value of the target element type
into_completion_Option_Option_default(self) ==
    IF self.tag = "Some"
    THEN Made(Value(self.val), <<>>)
    ELSE Made(Abrupt(Some(I32(0))), <<>>)

\* impl IntoCompletion<Option<V>> for Option<U>
into_completion_Option_Option(self) ==
    IF self.tag = "Some"
    THEN Made(Value(self.val), <<>>)
    ELSE Made(Abrupt(None), <<>>)

\* impl IntoCompletion<Option<V>> for *const U
into_completion_ConstPtr_Option(self) ==
    IF is_null(self)
    THEN Made(Abrupt(None), <<>>)
    ELSE Made(Value(self), <<>>)

\* faulty variant: the null test is inverted
into_completion_MutPtr_Option_inverted(self) ==
    IF ~is_null(self)
    THEN Made(Abrupt(None), <<>>)
    ELSE Made(Value(self), <<>>)

\* impl IntoCompletion<Option<V>> for *mut U
into_completion_MutPtr_Option(self) ==
    IF is_null(self)
    THEN Made(Abrupt(None), <<>>)
    ELSE Made(Value(self), <<>>)

\* faulty variant: the success predicate is inverted
into_completion_Response_Result_inverted(self, F) ==
    IF ~is_successful(self)
    THEN Made(Value(self), <<>>)
    ELSE Made(Abrupt(Err(into(Error(status(self)), F))),
              <<IntoCall(Error(status(self)), F)>>)

\* impl IntoCompletion<Result<T, E>> for Response  (E: From<Error>)
into_completion_Response_Result(self, F) ==
    IF is_successful(self)
    THEN Made(Value(self), <<>>)
    ELSE Made(Abrupt(Err(into(Error(status(self)), F))),
              <<IntoCall(Error(status(self)), F)>>)

\* the source representation of a value
SourceType(v) == CASE v.tag \in {"Ok", "Err"} -> "Result"
                   [] v.tag \in {"Some", "None"} -> "Option"
                   [] OTHER -> v.tag

\* IntoCompletion::into_completion: the instance is selected by the pair
\* (source type, target representation); a pair without an instance does
\* not compile, so no case is given for it.
into_completion(self, target) ==
    CASE SourceType(self) = "Result" /\ target.rep = "Result"
           -> into_completion_Result_Result(self, target.F)
      [] SourceType(self) = "Result" /\ target.rep = "Option" /\ target.elem = "Result"
           -> into_completion_Result_OptionResult(self, target.F)
      [] SourceType(self) = "Option" /\ target.rep = "Option"
           -> into_completion_Option_Option(self)
      [] SourceType(self) = "ConstPtr" /\ target.rep = "Option"
           -> into_completion_ConstPtr_Option(self)
      [] SourceType(self) = "MutPtr" /\ target.rep = "Option"
           -> into_completion_MutPtr_Option(self)
      [] SourceType(self) = "Response" /\ target.rep = "Result"
           -> into_completion_Response_Result(self, target.F)

(* ------------------------------ try! ----------------------------------- *)
\* faulty variant: the abrupt arm falls through with its payload
try_abruptContinues(c) == [ctl |-> "Continuing", x |-> c.val]

\* faulty variant: the value arm returns from the function
try_valueExits(c) == [ctl |-> "Exited", x |-> c.val]

\* match into_completion($expr) { Value(x) => x, Abrupt(x) => { return x; } }
try(c) == IF c.tag = "Value"
          THEN [ctl |-> "Continuing", x |-> c.val]
          ELSE [ctl |-> "Exited", x |-> c.val]

\* faulty variant: the exit unwinds the whole call stack, as an exception would
Return_unwindAll(st, res, x) == [stack |-> <<>>, result |-> x]

\* `return x`: the frame on top of the stack ends and x becomes the value of
\* the call expression in the caller's frame, or the program's result when
\* there is no caller.
Return(st, res, x) ==
    IF Len(st) = 1
    THEN [stack |-> <<>>, result |-> x]
    ELSE [stack |-> [SubSeq(st, 1, Len(st) - 1) EXCEPT ![Len(st) - 1].src = x],
          result |-> res]

(* ----------------------------- programs -------------------------------- *)
Call(f) == [kind |-> "call", fn |-> f]
Lit(v) == [kind |-> "lit", val |-> v]
Try(e) == [op |-> "try", src |-> e]
Ret(f) == [op |-> "ret", f |-> f]
RetLit(v) == [op |-> "ret", f |-> "Lit", val |-> v]
Fn(target, body) == [target |-> target, body |-> body]

\* the result of the tail expression of a function body; dereferencing a
\* null pointer is undefined behaviour and may produce anything
TailValues(stmt, locals) ==
    LET x == locals[Len(locals)] IN
    CASE stmt.f = "Lit" -> {stmt.val}
      [] stmt.f = "OkToString" -> {Ok(to_string(x))}
      [] stmt.f = "SomeDouble" -> {Some(I32(x.n * 2))}
      [] stmt.f = "SomeToString" -> {Some(to_string(x))}
      [] stmt.f = "SomeOkFormat" -> {Some(Ok(format(x)))}
      [] stmt.f = "None" -> {None}
      [] stmt.f = "OkUnit" -> {Ok(Unit)}
      [] stmt.f = "SomeDeref" -> IF is_null(x)
                                 THEN {Some(I64(n)) : n \in Ints}
                                 ELSE {Some(I64(Mem[x.addr]))}

TailIsUB(stmt, locals) ==
    stmt.f = "SomeDeref" /\ is_null(locals[Len(locals)])

\* test_result_okay, test_result_fail, test_result_*_in_iterator_method
ResultProg(r, F, main, tail) ==
    [name |-> "result", main |-> main,
     fns |-> [f \in {"foo", "bar", "next"} |->
        CASE f = "foo" -> Fn(ResultOf("i32", IF r.tag = "Err" THEN r.val.tag ELSE "unit"),
                             <<RetLit(r)>>)
          [] f = "bar" -> Fn(ResultOf("String", F), <<Try(Call("foo")), Ret("OkToString")>>)
          [] f = "next" -> Fn(OptionResultOf("String", F), <<Try(Call("bar")), Ret(tail)>>)]]

\* test_option_some, test_option_none, test_option_none_type
OptionProg(o, tail) ==
    [name |-> "option", main |-> "bar",
     fns |-> [f \in {"foo", "bar"} |->
        CASE f = "foo" -> Fn(OptionOf("i32"), <<RetLit(o)>>)
          [] f = "bar" -> Fn(OptionOf(IF tail = "SomeDouble" THEN "i32" ELSE "String"),
                             <<Try(Call("foo")), Ret(tail)>>)]]

\* test_result_raw_ptr, test_result_raw_ptr_mut
PtrProg(p) ==
    [name |-> "ptr", main |-> "bar",
     fns |-> [f \in {"foo", "bar"} |->
        CASE f = "foo" -> Fn(PtrTy, <<RetLit(p)>>)
          [] f = "bar" -> Fn(OptionOf("i64"), <<Try(Call("foo")), Ret("SomeDeref")>>)]]

\* test_http_example
HttpProg(s) ==
    [name |-> "http", main |-> "http_test",
     fns |-> [f \in {"http_test"} |->
        Fn(ResultOf("unit", "Error"), <<Try(Lit(Response(s))), Ret("OkUnit")>>)]]

\* a function body applying try! to a sequence of sources, one after another
SeqSources == {Some(I32(21)), None, Ok(I32(42)), Err(Unit)}
SeqProg(srcs) ==
    [name |-> "seq", main |-> "seq",
     fns |-> [f \in {"seq"} |->
        Fn(OptionResultOf("String", "MyError"),
           [i \in 1..(Len(srcs) + 1) |->
              IF i <= Len(srcs) THEN Try(Lit(srcs[i])) ELSE Ret("SomeOkFormat")])]]

SeqInputs == UNION {[1..n -> SeqSources] : n \in 1..MaxTries}

Programs ==
    {ResultProg(rf[1], rf[2], m, t) :
        rf \in {x \in ({Ok(I32(n)) : n \in Ints} \cup {Err(e) : e \in ErrVals})
                        \X {"unit", "MyError", "Error"} :
                   into(IF x[1].tag = "Err" THEN x[1].val ELSE Unit, x[2]) # NoVal},
        m \in {"bar", "next"},
        t \in {"SomeOkFormat", "None"}}
    \cup {OptionProg(o, t) : o \in {Some(I32(n)) : n \in Ints} \cup {None},
                             t \in {"SomeDouble", "SomeToString"}}
    \cup {PtrProg(p) : p \in {ConstPtr(a) : a \in Addrs} \cup {MutPtr(a) : a \in Addrs}}
    \cup {HttpProg(s) : s \in Statuses}
    \cup {SeqProg(srcs) : srcs \in SeqInputs}

Sites(p) ==
    UNION {{<<f, i>> : i \in {j \in 1..Len(p.fns[f].body) : p.fns[f].body[j].op = "try"}}
           : f \in DOMAIN p.fns}

(* --------------------------- the machine ------------------------------- *)
VARIABLES prog, stack, result, intoLog, phase, trace, ub
vars == <<prog, stack, result, intoLog, phase, trace, ub>>

Frame(f) == [fn |-> f, pc |-> 1, src |-> NoVal, carrier |-> NoVal, locals |-> <<>>]
Top == stack[Len(stack)]
Stmt(fr) == prog.fns[fr.fn].body[fr.pc]
Site(fr) == <<fr.fn, fr.pc>>
Target(fr) == prog.fns[fr.fn].target
Done == stack = <<>>

Init ==
    /\ prog \in Programs
    /\ stack = <<Frame(prog.main)>>
    /\ result = NoVal
    /\ intoLog = <<>>
    /\ phase = [s \in Sites(prog) |-> "NotStarted"]
    /\ trace = <<>>
    /\ ub = FALSE

\* try!($expr) where $expr is a value at hand
EvalLit ==
    /\ ~Done
    /\ Stmt(Top).op = "try" /\ Top.src = NoVal
    /\ Stmt(Top).src.kind = "lit"
    /\ stack' = [stack EXCEPT ![Len(stack)].src = Stmt(Top).src.val]
    /\ phase' = [phase EXCEPT ![Site(Top)] = "Evaluating"]
    /\ trace' = Append(trace, Site(Top))
    /\ UNCHANGED <<prog, result, intoLog, ub>>

\* try!($expr) where $expr is a call: the callee runs in a new frame
EvalCall ==
    /\ ~Done
    /\ Stmt(Top).op = "try" /\ Top.src = NoVal
    /\ Stmt(Top).src.kind = "call"
    /\ stack' = Append(stack, Frame(Stmt(Top).src.fn))
    /\ phase' = [phase EXCEPT ![Site(Top)] = "Evaluating"]
    /\ trace' = Append(trace, Site(Top))
    /\ UNCHANGED <<prog, result, intoLog, ub>>

\* IntoCompletion::into_completion($expr)
Convert ==
    /\ ~Done
    /\ Top.src # NoVal /\ Top.carrier = NoVal
    /\ LET made == into_completion(Top.src, Target(Top)) IN
         /\ stack' = [stack EXCEPT ![Len(stack)].carrier = made.c]
         /\ intoLog' = intoLog \o
               [i \in 1..Len(made.calls) |->
                  [site |-> Site(Top), arg |-> made.calls[i].arg, F |-> made.calls[i].F]]
    /\ UNCHANGED <<prog, result, phase, trace, ub>>

\* Completion::Value(x) => x
Continue ==
    /\ ~Done
    /\ Top.carrier # NoVal
    /\ try(Top.carrier).ctl = "Continuing"
    /\ stack' = [stack EXCEPT ![Len(stack)] =
                    [fn |-> Top.fn, pc |-> Top.pc + 1, src |-> NoVal, carrier |-> NoVal,
                     locals |-> Append(Top.locals, try(Top.carrier).x)]]
    /\ phase' = [phase EXCEPT ![Site(Top)] = "Continuing"]
    /\ UNCHANGED <<prog, result, intoLog, trace, ub>>

\* faulty variant: the abrupt case evaluates the source expression again
Exit_retry ==
    /\ ~Done
    /\ Top.carrier # NoVal
    /\ try(Top.carrier).ctl = "Exited"
    /\ stack' = [stack EXCEPT ![Len(stack)].src = NoVal, ![Len(stack)].carrier = NoVal]
    /\ phase' = [phase EXCEPT ![Site(Top)] = "Exited"]
    /\ UNCHANGED <<prog, result, intoLog, trace, ub>>

\* Completion::Abrupt(x) => { return x; }
Exit ==
    /\ ~Done
    /\ Top.carrier # NoVal
    /\ try(Top.carrier).ctl = "Exited"
    /\ LET r == Return(stack, result, try(Top.carrier).x) IN
         /\ stack' = r.stack
         /\ result' = r.result
    /\ phase' = [phase EXCEPT ![Site(Top)] = "Exited"]
    /\ UNCHANGED <<prog, intoLog, trace, ub>>

\* the tail expression of the function body is its return value
TailReturn ==
    /\ ~Done
    /\ Stmt(Top).op = "ret"
    /\ \E v \in TailValues(Stmt(Top), Top.locals) :
         LET r == Return(stack, result, v) IN
           /\ stack' = r.stack
           /\ result' = r.result
    /\ ub' = (ub \/ TailIsUB(Stmt(Top), Top.locals))
    /\ UNCHANGED <<prog, intoLog, phase, trace>>

Next == EvalLit \/ EvalCall \/ Convert \/ Continue \/ Exit \/ TailReturn

Spec == Init /\ [][Next]_vars

(* ------------------------------ claims --------------------------------- *)
Converted == ~Done /\ Top.carrier # NoVal
CallsAt(s) == Cardinality({i \in DOMAIN intoLog : intoLog[i].site = s})
FooLit == prog.fns["foo"].body[1].val
NextTail == prog.fns["next"].body[2].f
NextF == prog.fns["next"].target.F

\* C1: converting Err(e) with a Result target yields Abrupt(Err(conv(e)))
\* for the declared conversion conv, applied exactly once (to e) during the
\* conversion; bar() of test_result_fail returns Err(MyError).
C1_FailureCoercion ==
    /\ (Converted /\ Top.src.tag = "Err" /\ Target(Top).rep = "Result") =>
          /\ into(Top.src.val, Target(Top).F) # NoVal
          /\ Top.carrier = Abrupt(Err(into(Top.src.val, Target(Top).F)))
          /\ CallsAt(Site(Top)) = 1
          /\ \A i \in DOMAIN intoLog : intoLog[i].site = Site(Top) =>
                intoLog[i].arg = Top.src.val /\ intoLog[i].F = Target(Top).F
    /\ (Done /\ prog.name = "result" /\ prog.main = "bar" /\ FooLit = Err(Unit)) =>
          result = Err(IF prog.fns["bar"].target.F = "MyError" THEN MyError ELSE Unit)

C1_Witness ==
    /\ Converted /\ Top.src = Err(Unit)
    /\ Target(Top).rep = "Result" /\ Target(Top).F = "MyError"
    /\ Top.carrier = Abrupt(Err(MyError))
    /\ CallsAt(Site(Top)) = 1

\* C2: when the conversion inside g is abrupt, g ends at once with the abrupt
\* payload as its result: exactly g's frame is removed, no further try! site
\* is evaluated by that step, the payload is the value of the call expression
\* in the caller f (whose position is unchanged) or the program's result,
\* and the dereference of a null pointer after try! never runs.
C2_NonLocalExit ==
    /\ [][(~Done /\ Top.carrier.tag = "Abrupt") =>
            /\ Len(stack') = Len(stack) - 1
            /\ trace' = trace
            /\ IF Len(stack) = 1
               THEN result' = Top.carrier.val
               ELSE /\ result' = result
                    /\ stack' = [SubSeq(stack, 1, Len(stack) - 1)
                                   EXCEPT ![Len(stack) - 1].src = Top.carrier.val]]_vars
    /\ [](~ub)

C2_Witness ==
    /\ prog.name = "result" /\ prog.main = "next" /\ FooLit = Err(Unit)
    /\ Len(stack) = 1 /\ Top.fn = "next" /\ Top.pc = 1
    /\ Top.src = Err(MyError) /\ Top.carrier = NoVal
    /\ phase[<<"bar", 1>>] = "Exited"
    /\ trace = <<<<"next", 1>>, <<"bar", 1>>>>

\* C3: converting Ok(v) with a Result target yields Value(v) with v
\* unchanged and without applying the failure conversion; bar() of
\* test_result_okay returns the success outcome built from v.
C3_OutcomeIdentity ==
    /\ (Converted /\ Top.src.tag = "Ok" /\ Target(Top).rep = "Result") =>
          /\ Top.carrier = Value(Top.src.val)
          /\ CallsAt(Site(Top)) = 0
    /\ (Done /\ prog.name = "result" /\ prog.main = "bar" /\ FooLit.tag = "Ok") =>
          /\ result = Ok(to_string(FooLit.val))
          /\ intoLog = <<>>

C3_Witness ==
    /\ Done /\ prog.name = "result" /\ prog.main = "bar"
    /\ FooLit = Ok(I32(42))
    /\ result = Ok(Str(<<"4", "2">>))

\* C4: converting an Option with an Option target: None yields Abrupt(None)
\* whatever the target element type, and Some(u) yields Value(u); bar() of
\* the option tests returns None for an absent source.
C4_OptionalAbsorption ==
    /\ (Converted /\ SourceType(Top.src) = "Option" /\ Target(Top).rep = "Option") =>
          /\ Top.src = None => Top.carrier = Abrupt(None)
          /\ Top.src.tag = "Some" => Top.carrier = Value(Top.src.val)
          /\ CallsAt(Site(Top)) = 0
    /\ (Done /\ prog.name = "option" /\ FooLit = None) => result = None

C4_Witness ==
    /\ Converted /\ Top.src = None
    /\ Target(Top).rep = "Option" /\ Target(Top).elem = "String"
    /\ Top.carrier = Abrupt(None)

\* C5: for *const and *mut pointers converted with an Option target, the
\* null pointer yields Abrupt(None) and a non-null pointer p yields Value(p);
\* bar() of the pointer tests returns None for null and Some(*p) otherwise.
C5_NullPointerMapping ==
    /\ (Converted /\ SourceType(Top.src) \in {"ConstPtr", "MutPtr"}) =>
          IF Top.src.addr = NullAddr
          THEN Top.carrier = Abrupt(None)
          ELSE Top.carrier = Value(Top.src)
    /\ (Done /\ prog.name = "ptr") =>
          result = IF FooLit.addr = NullAddr THEN None ELSE Some(I64(Mem[FooLit.addr]))

C5_Witness ==
    /\ Done /\ prog.name = "ptr" /\ FooLit = MutPtr(1)
    /\ result = Some(I64(NUM))
    /\ phase[<<"bar", 1>>] = "Continuing"

\* C6: converting a Result with an Option<Result> target: Err(e) yields
\* Abrupt(Some(Err(conv(e)))), never None, and Ok(v) yields Value(v); next()
\* of test_result_fail_in_iterator_method returns Some(Err(..)).
C6_IteratorFailure ==
    /\ (Converted /\ SourceType(Top.src) = "Result"
          /\ Target(Top).rep = "Option" /\ Target(Top).elem = "Result") =>
          /\ Top.src.tag = "Err" =>
                Top.carrier = Abrupt(Some(Err(into(Top.src.val, Target(Top).F))))
          /\ Top.src.tag = "Ok" => Top.carrier = Value(Top.src.val)
    /\ (Done /\ prog.name = "result" /\ prog.main = "next" /\ FooLit = Err(Unit)) =>
          /\ result # None
          /\ result = Some(Err(IF NextF = "MyError" THEN MyError ELSE Unit))

C6_Witness ==
    /\ Converted /\ Top.fn = "next" /\ Top.src = Err(MyError)
    /\ NextTail = "None"
    /\ Top.carrier = Abrupt(Some(Err(MyError)))

\* C7: when the conversion yields the value case, try! evaluates to the
\* unwrapped payload, the function does not exit (its frame stays, no result
\* is produced) and execution continues after the construct with the value
\* bound; Some(try!(Some(n)) * 2) is Some(2 * n).
C7_ValueContinues ==
    /\ [][(~Done /\ Top.carrier.tag = "Value") =>
            /\ result' = result
            /\ stack' = [stack EXCEPT ![Len(stack)] =
                  [fn |-> Top.fn, pc |-> Top.pc + 1, src |-> NoVal, carrier |-> NoVal,
                   locals |-> Append(Top.locals, Top.carrier.val)]]]_vars
    /\ []((Done /\ prog.name = "option" /\ FooLit.tag = "Some"
             /\ prog.fns["bar"].body[2].f = "SomeDouble") =>
          result = Some(I32(2 * FooLit.val.n)))

C7_Witness ==
    /\ Done /\ prog.name = "option" /\ FooLit = Some(I32(21))
    /\ prog.fns["bar"].body[2].f = "SomeDouble"
    /\ result = Some(I32(42))
    /\ phase[<<"bar", 1>>] = "Continuing"

HttpStatus == prog.fns["http_test"].body[1].src.val.status

\* C8: the Response conversion yields the response itself when its status is
\* 200 and otherwise the failure built from its status; http_test(s) returns
\* Ok(()) for 200 and Err(Error(s)) for every other s.
C8_CustomInstance ==
    /\ (Converted /\ Top.src.tag = "Response") =>
          IF Top.src.status = 200
          THEN Top.carrier = Value(Top.src)
          ELSE Top.carrier = Abrupt(Err(Error(Top.src.status)))
    /\ (Done /\ prog.name = "http") =>
          result = IF HttpStatus = 200 THEN Ok(Unit) ELSE Err(Error(HttpStatus))

C8_Witness ==
    /\ Done /\ prog.name = "http" /\ HttpStatus = 404
    /\ result = Err(Error(404))
    /\ phase[<<"http_test", 1>>] = "Exited"

SeqLen == Len(prog.fns["seq"].body) - 1
SeqSrc(i) == prog.fns["seq"].body[i].src.val
IsAbruptSrc(v) == v.tag \in {"None", "Err"}
FirstAbrupt ==
    IF \E i \in 1..SeqLen : IsAbruptSrc(SeqSrc(i))
    THEN CHOOSE i \in 1..SeqLen :
            IsAbruptSrc(SeqSrc(i)) /\ \A j \in 1..(i - 1) : ~IsAbruptSrc(SeqSrc(j))
    ELSE 0
SeqLast == IF FirstAbrupt = 0 THEN SeqLen ELSE FirstAbrupt
SeqExpected ==
    IF FirstAbrupt = 0 THEN Some(Ok(format(SeqSrc(SeqLen).val)))
    ELSE IF SeqSrc(FirstAbrupt) = None THEN None
    ELSE Some(Err(MyError))

\* C9: every application of try! goes from Evaluating to exactly one of
\* Continuing and Exited and never back; no site is evaluated twice; in a
\* body with a sequence of try!, the sites are evaluated in program order up
\* to the first abrupt one, whose payload is the function's result, no later
\* site is evaluated, and without an abrupt one every site is evaluated once.
C9_StateMachine ==
    /\ [][\A s \in Sites(prog) :
            /\ phase[s] = "NotStarted" => phase'[s] \in {"NotStarted", "Evaluating"}
            /\ phase[s] = "Evaluating" => phase'[s] \in {"Evaluating", "Continuing", "Exited"}
            /\ phase[s] \in {"Continuing", "Exited"} => phase'[s] = phase[s]]_vars
    /\ [](\A i, j \in DOMAIN trace : trace[i] = trace[j] => i = j)
    /\ [](\A s, t \in Sites(prog) :
            (s[1] = t[1] /\ s[2] < t[2] /\ phase[s] = "Exited") => phase[t] = "NotStarted")
    /\ [](prog.name = "seq" =>
            /\ Len(trace) <= SeqLast
            /\ \A i \in DOMAIN trace : trace[i] = <<"seq", i>>
            /\ Done =>
                 /\ result = SeqExpected
                 /\ Len(trace) = SeqLast
                 /\ \A i \in 1..SeqLen :
                      phase[<<"seq", i>>] =
                         IF i > SeqLast THEN "NotStarted"
                         ELSE IF i = FirstAbrupt THEN "Exited" ELSE "Continuing")

C9_Witness ==
    /\ Done /\ prog.name = "seq" /\ SeqLen >= 2
    /\ FirstAbrupt = 1
    /\ ~IsAbruptSrc(SeqSrc(2))
    /\ phase[<<"seq", 1>>] = "Exited" /\ phase[<<"seq", 2>>] = "NotStarted"
    /\ trace = <<<<"seq", 1>>>>

\* C10: an abrupt exit removes one call frame: in next -> bar -> foo with foo
\* returning Err(()), bar's exit hands Err(conv(())) to next as the value of
\* its call, next converts that value itself, and next's result is
\* Some(Err(..)) of the failure converted once per frame, in order.
C10_OneFrame ==
    (prog.name = "result" /\ prog.main = "next" /\ FooLit = Err(Unit)) =>
       /\ (phase[<<"bar", 1>>] = "Exited" /\ ~Done) =>
             /\ Len(stack) = 1 /\ Top.fn = "next" /\ Top.pc = 1
             /\ Top.src = Err(IF NextF = "MyError" THEN MyError ELSE Unit)
       /\ Done =>
             /\ result = Some(Err(IF NextF = "MyError" THEN MyError ELSE Unit))
             /\ phase[<<"bar", 1>>] = "Exited" /\ phase[<<"next", 1>>] = "Exited"
             /\ Len(intoLog) = 2
             /\ intoLog[1] = [site |-> <<"bar", 1>>, arg |-> Unit, F |-> NextF]
             /\ intoLog[2] = [site |-> <<"next", 1>>,
                              arg |-> IF NextF = "MyError" THEN MyError ELSE Unit,
                              F |-> NextF]

C10_Witness ==
    /\ Done /\ prog.name = "result" /\ prog.main = "next" /\ FooLit = Err(Unit)
    /\ NextF = "MyError"
    /\ result = Some(Err(MyError))
    /\ Len(intoLog) = 2
====
